---- MODULE Spec2Model ----
(***************************************************************************)
(* A model of gfr's hotfix command (src/gfr/commands/hotfix.py): the       *)
(* StartHotfix and FinishHotfix workflows as a sequential state machine    *)
(* over a source-control provider, a code-hosting provider, the changelog  *)
(* file and the config store.  Strings are TLA+ strings, handled one       *)
(* character at a time with Len, SubSeq and \o.                            *)
(***************************************************************************)
EXTENDS Integers, Sequences, FiniteSets, TLC

(***************************************************************************)
(* Python string and integer primitives used by hotfix.py                  *)
(***************************************************************************)

\* Python's None (get_latest_tag is nullable, config values may be absent).
None == "<None>"

\* s[i], 1-based.
Char(s, i) == SubSeq(s, i, i)

\* s[i:], 1-based i.
Drop(s, i) == SubSeq(s, i, Len(s))

\* str.startswith(p)
StartsWith(s, p) == Len(s) >= Len(p) /\ SubSeq(s, 1, Len(p)) = p

\* Truthiness of an optional string: `not x` holds for None and for "".
Falsy(x) == x = None \/ x = ""

UpperAlpha == "ABCDEFGHIJKLMNOPQRSTUVWXYZ"

LowerAlpha == "abcdefghijklmnopqrstuvwxyz"

Digits == "0123456789"

\* The 1-based position of character c in alphabet a, 0 when absent.
IndexIn(a, c) ==
  IF \E i \in 1..Len(a) : Char(a, i) = c
  THEN CHOOSE i \in 1..Len(a) : Char(a, i) = c
  ELSE 0

\* The characters of alphabet a.
CharsOf(a) == {Char(a, i) : i \in 1..Len(a)}

UpperChars == CharsOf(UpperAlpha)

DigitChars == CharsOf(Digits)

\* The lowercase letter of each uppercase letter.
ToLower == [c \in UpperChars |-> Char(LowerAlpha, IndexIn(UpperAlpha, c))]

\* The value of each decimal digit.
DigitValue == [c \in DigitChars |-> IndexIn(Digits, c) - 1]

LowerChar(c) == IF c \in UpperChars THEN ToLower[c] ELSE c

RECURSIVE StrLower(_)
\* str.lower() on ASCII text.
StrLower(s) == IF s = "" THEN "" ELSE LowerChar(Head(s)) \o StrLower(Tail(s))

RECURSIVE StrReplace(_, _, _)
\* str.replace(old, new) for a one-character old.
StrReplace(s, old, new) ==
  IF s = "" THEN ""
  ELSE (IF Head(s) = old THEN new ELSE Head(s)) \o StrReplace(Tail(s), old, new)

RECURSIVE LStrip(_, _)
\* str.lstrip(c): drops every leading occurrence of the character c.
LStrip(s, c) == IF s # "" /\ Head(s) = c THEN LStrip(Tail(s), c) ELSE s

\* The length of the prefix of s before the first occurrence of character c.
PrefixLen(s, c) ==
  IF \E i \in 1..Len(s) : Char(s, i) = c
  THEN (CHOOSE i \in 1..Len(s) : Char(s, i) = c /\ \A j \in 1..(i - 1) : Char(s, j) # c) - 1
  ELSE Len(s)

RECURSIVE Split(_, _)
\* str.split(c): the pieces of s between occurrences of c (always >= 1 piece).
Split(s, c) ==
  LET n == PrefixLen(s, c)
  IN IF n = Len(s) THEN <<s>>
     ELSE <<SubSeq(s, 1, n)>> \o Split(Drop(s, n + 2), c)

IsDigits(s) == s # "" /\ \A i \in 1..Len(s) : Char(s, i) \in DigitChars

RECURSIVE ParseInt(_)
\* int(s) for a string of decimal digits (leading zeros allowed).
ParseInt(s) ==
  IF s = "" THEN 0
  ELSE 10 * ParseInt(SubSeq(s, 1, Len(s) - 1)) + DigitValue[Char(s, Len(s))]

RECURSIVE IntToStr(_)
\* str(n) / f"{n}" for n >= 0.
IntToStr(n) ==
  IF n < 10 THEN Char(Digits, n + 1)
  ELSE IntToStr(n \div 10) \o Char(Digits, (n % 10) + 1)

\* The outcome of an uncaught ValueError (int() of a non-number, or an unpack
\* of other than three parts).
ValueError == "<ValueError>"

(***************************************************************************)
(* hotfix.py: _get_next_patch_version                                      *)
(***************************************************************************)

\* A slip: the minor number is bumped instead of the patch number.
GetNextPatchVersionBumpsMinor(current_version) ==
  IF Falsy(current_version) THEN "0.0.1"
  ELSE LET parts == Split(LStrip(current_version, "v"), ".")
       IN IF Len(parts) # 3 \/ \E i \in 1..Len(parts) : ~IsDigits(parts[i])
          THEN ValueError
          ELSE IntToStr(ParseInt(parts[1])) \o "." \o IntToStr(ParseInt(parts[2]) + 1)
                 \o "." \o IntToStr(ParseInt(parts[3]))

get_next_patch_version(current_version) ==
  IF Falsy(current_version) THEN "0.0.1"
  ELSE LET parts == Split(LStrip(current_version, "v"), ".")
       IN IF Len(parts) # 3 \/ \E i \in 1..Len(parts) : ~IsDigits(parts[i])
          THEN ValueError
          ELSE IntToStr(ParseInt(parts[1])) \o "." \o IntToStr(ParseInt(parts[2]))
                 \o "." \o IntToStr(ParseInt(parts[3]) + 1)

(***************************************************************************)
(* hotfix.py: the changelog entry and its insertion (lines 29-38, 103-117) *)
(***************************************************************************)

\* Does p occur in s at position i?
OccursAt(s, p, i) == i >= 1 /\ i + Len(p) - 1 <= Len(s) /\ SubSeq(s, i, i + Len(p) - 1) = p

\* `p in s`
Contains(s, p) == \E i \in 1..(Len(s) + 1) : OccursAt(s, p, i)

\* The index of the first empty line of the typed lines, 0 when there is none.
FirstEmpty(lines) ==
  IF \E i \in 1..Len(lines) : lines[i] = ""
  THEN CHOOSE i \in 1..Len(lines) : lines[i] = "" /\ \A j \in 1..(i - 1) : lines[j] # ""
  ELSE 0

\* A slip: the loop keeps the lines after the first empty one too.
PromptKeepsAllLines(lines) == SubSeq(lines, 1, Len(lines) - 1)

\* _prompt_for_changelog_items: the lines read before the first empty line.
prompt_for_changelog_items(lines) == SubSeq(lines, 1, FirstEmpty(lines) - 1)

RECURSIVE JoinItems(_)
\* "\n".join(f"- {item}" for item in fixed_items)
JoinItems(items) ==
  IF items = <<>> THEN ""
  ELSE IF Len(items) = 1 THEN "- " \o items[1]
  ELSE "- " \o items[1] \o "\n" \o JoinItems(Tail(items))

\* release_link (hotfix.py:107)
ReleaseLink(http_url, tag_name) == http_url \o "/releases/tag/" \o tag_name

\* new_entry (hotfix.py:108)
NewEntry(next_version, release_link, release_date, fixed_items) ==
  "## [" \o next_version \o "](" \o release_link \o ") - " \o release_date
    \o "\n### Fixed\n" \o JoinItems(fixed_items) \o "\n"

\* The pattern of the re.sub call: the literal heading and its blank line ...
HeadingLiteral == "# Changelog\n\n"

\* ... and the two newlines that end the lazily matched text after it.
BlankLine == "\n\n"

\* The positions at which p occurs in s.
Occurrences(s, p) == {i \in 1..Len(s) : OccursAt(s, p, i)}

\* The matches of r'(# Changelog\n\n.*?\n\n)' with re.DOTALL: <<i, q>> when the
\* literal occurs at i and a blank line at q, after the literal.
PatternMatches(content) ==
  { m \in Occurrences(content, HeadingLiteral) \X Occurrences(content, BlankLine) :
      m[2] >= m[1] + Len(HeadingLiteral) }

\* The match re.sub substitutes with count = 1: the leftmost start, and for it
\* the shortest text (.*? is lazy).
FirstMatch(content) ==
  CHOOSE m \in PatternMatches(content) :
    \A n \in PatternMatches(content) :
      m[1] < n[1] \/ (m[1] = n[1] /\ m[2] <= n[2])

\* The error re raises for a replacement template it cannot parse.
ReError == "<re.error>"

LetterChars == CharsOf(UpperAlpha) \cup CharsOf(LowerAlpha)

RECURSIVE TemplateOk(_)
\* Does re accept the replacement template t?  A backslash must be followed by
\* a group number that exists (only group 1 does), by a known escape letter or
\* by a character that is neither letter nor digit.  (The escapes \a \b \v \g<n>
\* and the octal forms are not produced by the inputs drawn here.)
TemplateOk(t) ==
  LET n == PrefixLen(t, "\\")
  IN IF n = Len(t) THEN TRUE
     ELSE IF n + 1 = Len(t) THEN FALSE
     ELSE LET c == Char(t, n + 2)
          IN IF c \in DigitChars
             THEN c = "1" /\ (Len(t) = n + 2 \/ Char(t, n + 3) \notin DigitChars)
                  /\ TemplateOk(Drop(t, n + 3))
             ELSE IF c \in LetterChars
             THEN c \in {"n", "t", "r", "f"} /\ TemplateOk(Drop(t, n + 3))
             ELSE TemplateOk(Drop(t, n + 3))

RECURSIVE ExpandTemplate(_, _)
\* The text an accepted template t stands for when group 1 matched g1: the text
\* up to the next backslash as it is, then the escape expanded.
ExpandTemplate(t, g1) ==
  LET n == PrefixLen(t, "\\")
  IN IF n = Len(t) THEN t
     ELSE LET c == Char(t, n + 2)
          IN SubSeq(t, 1, n)
               \o (CASE c = "1" -> g1
                     [] c = "n" -> "\n"
                     [] c = "t" -> "\t"
                     [] c = "r" -> "\r"
                     [] c = "f" -> "\f"
                     [] c = "\\" -> "\\"
                     [] OTHER -> "\\" \o c)
               \o ExpandTemplate(Drop(t, n + 3), g1)

\* The replacement template fr'\1{new_entry}\n': a backslash and 1, the entry,
\* a backslash and n.
ReplacementTemplate(new_entry) == "\\1" \o new_entry \o "\\n"

\* A slip: the entry is put before the matched heading block, not after it.
ChangelogSubBeforeHeading(content, new_entry) ==
  IF ~TemplateOk(ReplacementTemplate(new_entry)) THEN ReError
  ELSE IF PatternMatches(content) = {} THEN content
  ELSE LET m == FirstMatch(content)
           g1 == SubSeq(content, m[1], m[2] + 1)
       IN SubSeq(content, 1, m[1] - 1)
            \o ExpandTemplate(new_entry \o "\\n\\1", g1)
            \o Drop(content, m[2] + 2)

\* re.sub(r'(# Changelog\n\n.*?\n\n)', fr'\1{new_entry}\n', content, 1, re.DOTALL)
\* (hotfix.py:114): the template is parsed first, then the first match, if any,
\* is replaced; without a match the content is returned as it is.
ChangelogSub(content, new_entry) ==
  IF ~TemplateOk(ReplacementTemplate(new_entry)) THEN ReError
  ELSE IF PatternMatches(content) = {} THEN content
  ELSE LET m == FirstMatch(content)
           g1 == SubSeq(content, m[1], m[2] + 1)
       IN SubSeq(content, 1, m[1] - 1)
            \o ExpandTemplate(ReplacementTemplate(new_entry), g1)
            \o Drop(content, m[2] + 2)

\* f.seek(0, 0); f.write(text) on a file opened 'r+' holding content: the text
\* overwrites from the start, and what the old content has beyond it stays.
OverwriteFromStart(content, text) == text \o Drop(content, Len(text) + 1)

\* gfr.assets.changelog.CHANGELOG_TEMPLATE, stripped: the standard header.
ChangelogTemplate ==
  "# Changelog\n\nAll notable changes to this project will be documented in this file."

\* A slip that would guard a second run: a file that already holds the entry is
\* left as it is.
WriteChangelogOnce(content, new_entry) ==
  IF content # None
  THEN IF Contains(content, new_entry) THEN content
       ELSE LET text == ChangelogSub(content, new_entry)
            IN IF text = ReError THEN ReError ELSE OverwriteFromStart(content, text)
  ELSE ChangelogTemplate \o "\n\n" \o new_entry

\* What the changelog-write step leaves in CHANGELOG.md (hotfix.py:110-117);
\* ReError when re.sub raises (the file is then left as it was).
WriteChangelog(content, new_entry) ==
  IF content # None
  THEN LET text == ChangelogSub(content, new_entry)
       IN IF text = ReError THEN ReError ELSE OverwriteFromStart(content, text)
  ELSE ChangelogTemplate \o "\n\n" \o new_entry

(***************************************************************************)
(* Bounds and input sets                                                   *)
(***************************************************************************)

\* The number of invocations of the command in one behaviour.
MaxRuns == 2

\* The largest component of a drawn version number.
MaxVersion == 11

\* PyGithub objects are opaque here; the path and names the target resolver returns.
TargetPath == "/work/svc"

RepoName == "svc"

\* GFRConfig.config_path when get_root() returned (config.py:15-18).
ConfigPath == "/work/.gfr.yml"

\* The config store of a project whose file does not exist yet.
EmptyConfig == [ config_path |-> ConfigPath, last_used_microservice |-> None ]

\* GFRConfig() outside a git repository (config.py:20-24).
NoConfig == [ config_path |-> None, last_used_microservice |-> None ]

\* The `action` argument of the command (hotfix.py:204).
ActionArgs == {"start", "finish", "Finish", "release"}

\* The `hotfix_name` argument (hotfix.py:205); "" is the default.
HotfixNames == {"", "Fix login bug", "a B"}

\* Issue numbers the code-hosting provider may assign.
IssueNumbers == {7, 42}

\* `git branch -a` listings of the repository (the checked-out branch is added).
ListWithDoc == <<"main", "develop", "doc", "feature/a", "remotes/origin/main", "Doc">>
ListShort == <<"feature/b", "develop", "main">>
ListBare == <<"develop", "main">>

\* CHANGELOG.md as the repository may hold it: a file with the heading, its
\* paragraph and an earlier entry, and a file whose heading is not followed by
\* a blank line.  None stands for no file, "" is an empty file.
FileWithHeading ==
  "# Changelog\n\nAll notable changes.\n\n## [1.2.9](u) - 2025-12-01\n### Fixed\n- old\n"
FileHeadingNoBlank == "# Changelog\n## [1.2.9](u) - 2025-12-01\n### Fixed\n- old\n"

\* The repositories the command is invoked on: the checked-out branch, the
\* latest tag, the listing of branches and CHANGELOG.md.
Checkouts ==
  { <<"main", None, ListShort, None>>,
    <<"main", "v1.2.9", ListWithDoc, FileWithHeading>>,
    <<"main", None, ListShort, FileHeadingNoBlank>>,
    <<"hotfix/42-fix", None, ListShort, None>>,
    <<"hotfix/42-fix", "v1.2.9", ListWithDoc, FileWithHeading>>,
    <<"hotfix/42-fix", None, ListShort, FileHeadingNoBlank>>,
    <<"hotfix/42-fix", "v1.2.9", ListShort, "">>,
    <<"hotfix/fix", None, ListBare, FileWithHeading>>,
    <<"Main", None, ListShort, None>>,
    <<"mainline", "v1.2.9", ListShort, FileWithHeading>>,
    <<"develop", None, ListWithDoc, FileWithHeading>>,
    <<"hotfix", None, ListShort, FileWithHeading>>,
    <<"Hotfix/1-a", "v1.2.9", ListShort, None>>,
    <<"a/hotfix/1", None, ListShort, FileWithHeading>> }

\* Lines the operator may type at the changelog prompt; each run of lines
\* ends with the empty line that finishes the prompt, except the last, where
\* input ends without one.
StdinLines == { <<"">>, <<"a", "b", "">>, <<"a">>, <<"C:\\dir", "">> }

\* Descriptions the operator may type for the pull requests.
Descriptions == {"desc"}

\* The remote URL of the repository and the browsable URL derived from it.
RemoteUrl == "git@github.com:org/svc.git"

\* datetime.now().strftime("%Y-%m-%d") during the run.
Today == "2026-01-02"

(***************************************************************************)
(* State                                                                   *)
(***************************************************************************)

VARIABLES
  git,        \* the local repository and its remote, as the source-control provider sees them
  hub,        \* the code-hosting provider's objects: issues, pull requests, releases
  changelog,  \* the content of <repo>/CHANGELOG.md, None when the file does not exist
  config,     \* the config store (.gfr.yml): its path, None when GFRConfig found no
              \* repository root, and last_used_microservice
  pc,         \* the statement the current invocation is at; "idle" between invocations
  mode,       \* action.lower() of the current invocation
  loc,        \* the local variables of _start_hotfix / _finish_hotfix
  status,     \* how the last invocation ended
  runs,       \* invocations so far
  calls,      \* the provider calls of the current invocation, in order
  pre         \* history: the repository, hosting objects, changelog and config
              \* as the current invocation found them

vars == <<git, hub, changelog, config, pc, mode, loc, status, runs, calls, pre>>

\* Everything an invocation can have a side effect on.
World == [git |-> git, hub |-> hub, changelog |-> changelog, config |-> config]

\* The locals before any statement has run.
NoLocals ==
  [ hotfix_name |-> "", target_path |-> None, current_branch |-> None,
    repo |-> None, issue_number |-> 0, branch_name |-> None,
    latest_tag |-> None, next_version |-> None, tag_name |-> None,
    typed |-> <<>>, fixed_items |-> <<>>, new_entry |-> None, pr_body |-> None,
    base_idx |-> 1, pr |-> 0, branches_to_merge_into |-> <<>>, branch_idx |-> 1 ]

\* Is b in the listing L?
InList(L, b) == \E i \in 1..Len(L) : L[i] = b

Init ==
  /\ \E co \in Checkouts :
       /\ git = [ head |-> co[1],
                  branches |-> IF InList(co[3], co[1]) THEN co[3] ELSE co[3] \o <<co[1]>>,
                  remote_branches |-> {"main", "develop"},
                  latest_tag |-> co[2],
                  tags |-> {}, pushed_tags |-> {},
                  staged |-> FALSE, commits |-> <<>>, conflicts |-> {},
                  merged |-> {} ]
       /\ changelog = co[4]
  /\ hub = [ issues |-> {}, prs |-> <<>>, releases |-> {} ]
  /\ config \in {EmptyConfig, NoConfig}
  /\ pc = "idle"
  /\ mode = ""
  /\ loc = NoLocals
  /\ status = "none"
  /\ runs = 0
  /\ calls = <<>>
  /\ pre = World

(***************************************************************************)
(* Provider calls, exceptions and exits                                    *)
(***************************************************************************)

\* One provider call as the log records it: err is "" when the call returned,
\* and the message of the error it raised otherwise.
Call(prov, op, args, err) == [prov |-> prov, op |-> op, args |-> args, err |-> err]

\* Messages of the typed errors the providers raise.
GitErrors == {"Merge conflict in file.txt", "fatal: git command failed"}

\* hotfix(): the except clauses (hotfix.py:226-231).  GitError and GitHubError
\* end the run with exit code 1, KeyboardInterrupt with a cancellation notice;
\* anything else propagates.
HandleException(e) ==
  CASE e \in {"GitError", "GitHubError"} -> "error"
    [] e = "KeyboardInterrupt" -> "cancelled"
    [] OTHER -> "crashed"

\* The run ends with status s: no further statement of it executes.
Exit(s) == pc' = "idle" /\ status' = s

\* A slip: the handler of a provider error stores the target as last used.
RaisesAfterConfigWrite(prov, op, args) ==
  /\ calls' = Append(calls, Call(prov, op, args, "fatal: " \o op \o " failed"))
  /\ config' = [config EXCEPT !.last_used_microservice = loc.target_path]
  /\ pc' = "idle" /\ status' = "error"
  /\ UNCHANGED <<git, hub, changelog, mode, loc, runs, pre>>

\* A provider call that raises and is made again: the failure is logged and the
\* run stays at the step.
RaisesAndRetries(prov, op, args) ==
  /\ calls' = Append(calls, Call(prov, op, args, "fatal: " \o op \o " failed"))
  /\ UNCHANGED <<git, hub, changelog, config, pc, status, mode, loc, runs, pre>>

\* A provider call that raises: it is logged with its error, has no effect,
\* and the exception propagates to hotfix().
Raises(prov, op, args) ==
  /\ calls' = Append(calls, Call(prov, op, args, "fatal: " \o op \o " failed"))
  /\ Exit(HandleException(IF prov = "git" THEN "GitError" ELSE "GitHubError"))
  /\ UNCHANGED <<git, hub, changelog, config, mode, loc, runs, pre>>

\* A provider call that returns.
Returns(prov, op, args) == calls' = Append(calls, Call(prov, op, args, ""))

(***************************************************************************)
(* hotfix(): dispatch (hotfix.py:201-224)                                  *)
(***************************************************************************)

Invoke ==
  /\ pc = "idle"
  /\ runs < MaxRuns
  /\ runs' = runs + 1
  /\ calls' = <<>>
  /\ \E action \in ActionArgs, name \in HotfixNames :
       LET lower == StrLower(action)
       IN /\ mode' = lower
          /\ loc' = [NoLocals EXCEPT !.hotfix_name = IF lower = "start" THEN name ELSE ""]
          /\ IF lower = "start"
             THEN IF name = ""
                  THEN pc' = "idle" /\ status' = "error"
                  ELSE pc' = "s_resolve" /\ status' = "running"
             ELSE IF lower = "finish"
                  THEN pc' = "f_resolve" /\ status' = "running"
                  ELSE pc' = "idle" /\ status' = "error"
  /\ pre' = World
  /\ UNCHANGED <<git, hub, changelog, config>>

\* validate_and_get_repo_details: the target resolves to its path, or the run
\* ends fatally; it does so when there is no repository root to resolve in.
Resolve(next) ==
  \/ /\ config.config_path # None
     /\ loc' = [loc EXCEPT !.target_path = TargetPath]
     /\ pc' = next
     /\ UNCHANGED <<git, hub, changelog, config, mode, status, runs, calls, pre>>
  \/ /\ Exit("error")
     /\ UNCHANGED <<git, hub, changelog, config, mode, loc, runs, calls, pre>>

(***************************************************************************)
(* _start_hotfix (hotfix.py:40-74)                                         *)
(***************************************************************************)

StartResolve == pc = "s_resolve" /\ Resolve("s_check")

\* The pre-flight test of _start_hotfix.
StartBranchOkLoose(b) == StrLower(b) = "main"

StartBranchOk(b) == b = "main"

StartCheckBranch ==
  /\ pc = "s_check"
  /\ \/ Raises("git", "get_current_branch", <<>>)
     \/ /\ Returns("git", "get_current_branch", <<>>)
        /\ loc' = [loc EXCEPT !.current_branch = git.head]
        /\ IF StartBranchOk(git.head)
           THEN pc' = "s_repo" /\ UNCHANGED status
           ELSE Exit("error")
        /\ UNCHANGED <<git, hub, changelog, config, mode, runs, pre>>

StartGetRepo ==
  /\ pc = "s_repo"
  /\ \/ Raises("github", "repos.get", <<RepoName>>)
     \/ /\ Returns("github", "repos.get", <<RepoName>>)
        /\ loc' = [loc EXCEPT !.repo = RepoName]
        /\ pc' = "s_issue"
        /\ UNCHANGED <<git, hub, changelog, config, mode, status, runs, pre>>

\* A slip: the 'hotfix' label is left out.
LabelsBugOnly == {"bug"}

\* The labels of every issue and pull request the command creates.
Labels == {"bug", "hotfix"}

StartCreateIssue ==
  /\ pc = "s_issue"
  /\ \/ Raises("github", "issues.create", <<loc.hotfix_name>>)
     \/ \E k \in IssueNumbers \ {i.number : i \in hub.issues} :
          /\ Returns("github", "issues.create", <<loc.hotfix_name>>)
          /\ hub' = [hub EXCEPT !.issues = @ \cup
                       {[ number |-> k, title |-> loc.hotfix_name,
                          body |-> "Hotfix to address: " \o loc.hotfix_name,
                          labels |-> Labels ]}]
          /\ loc' = [loc EXCEPT !.issue_number = k]
          /\ pc' = "s_branch"
          /\ UNCHANGED <<git, changelog, config, mode, status, runs, pre>>

\* A slip: the name is lowercased but its spaces are kept.
BranchNameKeepsSpaces(number, hotfix_name) ==
  "hotfix/" \o IntToStr(number) \o "-" \o StrLower(hotfix_name)

\* branch_name (hotfix.py:66)
BranchName(number, hotfix_name) ==
  "hotfix/" \o IntToStr(number) \o "-" \o StrReplace(StrLower(hotfix_name), " ", "-")

StartCreateBranch ==
  /\ pc = "s_branch"
  /\ LET b == BranchName(loc.issue_number, loc.hotfix_name)
     IN \/ /\ Raises("git", "create_branch", <<b, "main">>)
        \/ /\ Returns("git", "create_branch", <<b, "main">>)
           /\ git' = [git EXCEPT !.branches = IF InList(@, b) THEN @ ELSE Append(@, b)]
           /\ loc' = [loc EXCEPT !.branch_name = b]
           /\ pc' = "s_switch"
           /\ UNCHANGED <<hub, changelog, config, mode, status, runs, pre>>

StartSwitchBranch ==
  /\ pc = "s_switch"
  /\ \/ Raises("git", "switch_branch", <<loc.branch_name>>)
     \/ /\ Returns("git", "switch_branch", <<loc.branch_name>>)
        /\ git' = [git EXCEPT !.head = loc.branch_name]
        /\ pc' = "s_config"
        /\ UNCHANGED <<hub, changelog, config, mode, loc, status, runs, pre>>

\* GFRConfig.set_last_used_microservice (config.py:43-46)
SetLastUsed(path) ==
  config' = IF config.config_path # None
            THEN [config EXCEPT !.last_used_microservice = path]
            ELSE config

StartSetLastUsed ==
  /\ pc = "s_config"
  /\ SetLastUsed(loc.target_path)
  /\ Exit("success")
  /\ UNCHANGED <<git, hub, changelog, mode, loc, runs, calls, pre>>

StartHotfix ==
  \/ StartResolve
  \/ StartCheckBranch
  \/ StartGetRepo
  \/ StartCreateIssue
  \/ StartCreateBranch
  \/ StartSwitchBranch
  \/ StartSetLastUsed

(***************************************************************************)
(* _finish_hotfix (hotfix.py:76-198)                                       *)
(***************************************************************************)

FinishResolve == pc = "f_resolve" /\ Resolve("f_check")

\* A slip: the prefix test ignores letter case.
FinishBranchOkAnyCase(b) == StartsWith(StrLower(b), "hotfix/")

\* The pre-flight test of _finish_hotfix (hotfix.py:87).
FinishBranchOk(b) == StartsWith(b, "hotfix/")

FinishCheckBranch ==
  /\ pc = "f_check"
  /\ \/ Raises("git", "get_current_branch", <<>>)
     \/ /\ Returns("git", "get_current_branch", <<>>)
        /\ loc' = [loc EXCEPT !.current_branch = git.head]
        /\ IF FinishBranchOk(git.head)
           THEN pc' = "f_tag" /\ UNCHANGED status
           ELSE Exit("error")
        /\ UNCHANGED <<git, hub, changelog, config, mode, runs, pre>>

\* tag_name (hotfix.py:96)
TagName(next_version) == "v" \o next_version

\* Lines 94-96.  A latest tag that is not three dot-separated numbers makes
\* int() or the unpacking raise ValueError, which nothing catches.
FinishReadTag ==
  /\ pc = "f_tag"
  /\ \/ Raises("git", "get_latest_tag", <<>>)
     \/ /\ Returns("git", "get_latest_tag", <<>>)
        /\ LET next_version == get_next_patch_version(git.latest_tag)
           IN IF next_version = ValueError
              THEN /\ Exit(HandleException("ValueError"))
                   /\ loc' = [loc EXCEPT !.latest_tag = git.latest_tag]
              ELSE /\ loc' = [loc EXCEPT !.latest_tag = git.latest_tag,
                                         !.next_version = next_version,
                                         !.tag_name = TagName(next_version)]
                   /\ pc' = "f_items"
                   /\ UNCHANGED status
        /\ UNCHANGED <<git, hub, changelog, config, mode, runs, pre>>

\* A slip: an empty list of items is accepted.
ItemsOkAlways(fixed_items) == TRUE

\* `if not fixed_items` is false (hotfix.py:99).
ItemsOk(fixed_items) == fixed_items # <<>>

\* Lines 98-101: the blocking prompt.  The operator types lines, or interrupts;
\* input that ends before an empty line raises EOFError, which nothing catches.
FinishPromptItems ==
  /\ pc = "f_items"
  /\ \/ /\ Exit(HandleException("KeyboardInterrupt"))
        /\ UNCHANGED loc
     \/ \E lines \in StdinLines :
          IF FirstEmpty(lines) = 0
          THEN Exit(HandleException("EOFError")) /\ loc' = [loc EXCEPT !.typed = lines]
          ELSE /\ loc' = [loc EXCEPT !.typed = lines,
                                     !.fixed_items = prompt_for_changelog_items(lines)]
               /\ IF ItemsOk(prompt_for_changelog_items(lines))
                  THEN pc' = "f_url" /\ UNCHANGED status
                  ELSE Exit("error")
  /\ UNCHANGED <<git, hub, changelog, config, mode, runs, calls, pre>>

\* command_helpers.format_git_url_to_http: the browsable HTTPS base URL of the
\* remote (an SSH or HTTPS remote URL, with or without the .git suffix).
FormatGitUrlToHttp(url) ==
  LET noext == IF Len(url) >= 4 /\ Drop(url, Len(url) - 3) = ".git"
               THEN SubSeq(url, 1, Len(url) - 4) ELSE url
  IN IF StartsWith(noext, "git@")
     THEN "https://" \o StrReplace(Drop(noext, 5), ":", "/")
     ELSE noext

\* Lines 103-108.
FinishBuildEntry ==
  /\ pc = "f_url"
  /\ \/ Raises("git", "get_remote_url", <<>>)
     \/ /\ Returns("git", "get_remote_url", <<>>)
        /\ loc' = [loc EXCEPT !.new_entry =
                     NewEntry(loc.next_version,
                              ReleaseLink(FormatGitUrlToHttp(RemoteUrl), loc.tag_name),
                              Today, loc.fixed_items)]
        /\ pc' = "f_write"
        /\ UNCHANGED <<git, hub, changelog, config, mode, status, runs, pre>>

\* Lines 110-119.
FinishWriteChangelog ==
  /\ pc = "f_write"
  /\ LET written == WriteChangelog(changelog, loc.new_entry)
     IN IF written = ReError
        THEN Exit(HandleException("re.error")) /\ UNCHANGED changelog
        ELSE /\ changelog' = written
             /\ pc' = "f_add"
             /\ UNCHANGED status
  /\ UNCHANGED <<git, hub, config, mode, loc, runs, calls, pre>>

\* Line 123.
FinishAdd ==
  /\ pc = "f_add"
  /\ \/ Raises("git", "add", <<"CHANGELOG.md">>)
     \/ /\ Returns("git", "add", <<"CHANGELOG.md">>)
        /\ git' = [git EXCEPT !.staged = TRUE]
        /\ pc' = "f_commit"
        /\ UNCHANGED <<hub, changelog, config, mode, loc, status, runs, pre>>

\* The commit message (hotfix.py:124).
CommitMessage(next_version) == "docs: update changelog for version " \o next_version

\* Line 124.
FinishCommit ==
  /\ pc = "f_commit"
  /\ \/ Raises("git", "commit", <<CommitMessage(loc.next_version)>>)
     \/ /\ Returns("git", "commit", <<CommitMessage(loc.next_version)>>)
        /\ git' = [git EXCEPT !.staged = FALSE,
                              !.commits = Append(@, CommitMessage(loc.next_version))]
        /\ pc' = "f_desc"
        /\ UNCHANGED <<hub, changelog, config, mode, loc, status, runs, pre>>

RECURSIVE LeadingDigits(_)
\* The longest prefix of s made of digits.
LeadingDigits(s) ==
  IF s # "" /\ Head(s) \in DigitChars THEN Head(s) \o LeadingDigits(Tail(s)) ELSE ""

\* command_helpers._extract_issue_number: the digits that immediately follow
\* "hotfix/" in the branch name, None when there are none.
ExtractIssueNumber(branch) ==
  IF StartsWith(branch, "hotfix/") /\ LeadingDigits(Drop(branch, 8)) # ""
  THEN LeadingDigits(Drop(branch, 8))
  ELSE None

\* A slip: the issue-closing prefix is never added.
PrBodyNoPrefix(issue_number, description) == description

\* pr_body (hotfix.py:132-134)
PrBody(issue_number, description) ==
  IF ~Falsy(issue_number) THEN "Closes #" \o issue_number \o "\n\n" \o description
  ELSE description

\* Lines 128-135: the second blocking prompt.
FinishPromptDescription ==
  /\ pc = "f_desc"
  /\ \/ /\ Exit(HandleException("KeyboardInterrupt"))
        /\ UNCHANGED loc
     \/ \E description \in Descriptions :
          /\ loc' = [loc EXCEPT !.pr_body = PrBody(ExtractIssueNumber(loc.current_branch), description)]
          /\ pc' = "f_push"
          /\ UNCHANGED status
  /\ UNCHANGED <<git, hub, changelog, config, mode, runs, calls, pre>>

\* Line 139.
FinishPush ==
  /\ pc = "f_push"
  /\ \/ Raises("git", "push_branch", <<loc.current_branch>>)
     \/ /\ Returns("git", "push_branch", <<loc.current_branch>>)
        /\ git' = [git EXCEPT !.remote_branches = @ \cup {loc.current_branch}]
        /\ pc' = "f_repo"
        /\ UNCHANGED <<hub, changelog, config, mode, loc, status, runs, pre>>

\* Line 140.
FinishGetRepo ==
  /\ pc = "f_repo"
  /\ \/ Raises("github", "repos.get", <<RepoName>>)
     \/ /\ Returns("github", "repos.get", <<RepoName>>)
        /\ loc' = [loc EXCEPT !.repo = RepoName, !.base_idx = 1]
        /\ pc' = "f_pr_create"
        /\ UNCHANGED <<git, hub, changelog, config, mode, status, runs, pre>>

\* A slip: the bases in the other order.
BaseBranchesDevelopFirst == <<"develop", "main">>

\* The bases of the two pull requests, in the order of the loop (hotfix.py:142).
BaseBranches == <<"main", "develop">>

\* The title of both pull requests (hotfix.py:144).
PrTitle(current_branch) == "Hotfix: " \o current_branch

\* Line 144, for the base the loop is at.
FinishCreatePr ==
  /\ pc = "f_pr_create"
  /\ LET base == BaseBranches[loc.base_idx]
     IN \/ Raises("github", "prs.create", <<loc.current_branch, base>>)
        \/ /\ Returns("github", "prs.create", <<loc.current_branch, base>>)
           /\ hub' = [hub EXCEPT !.prs = Append(@,
                        [ title |-> PrTitle(loc.current_branch), body |-> loc.pr_body,
                          head |-> loc.current_branch, base |-> base,
                          labels |-> Labels, merged |-> FALSE ])]
           /\ loc' = [loc EXCEPT !.pr = Len(hub.prs) + 1]
           /\ pc' = "f_pr_merge"
           /\ UNCHANGED <<git, changelog, config, mode, status, runs, pre>>

\* Lines 145-146, and the loop's step to the next base or out of the loop.
FinishMergePr ==
  /\ pc = "f_pr_merge"
  /\ LET base == BaseBranches[loc.base_idx]
     IN \/ Raises("github", "prs.merge", <<loc.current_branch, base>>)
        \/ /\ Returns("github", "prs.merge", <<loc.current_branch, base>>)
           /\ hub' = [hub EXCEPT !.prs[loc.pr].merged = TRUE]
           /\ loc' = [loc EXCEPT !.base_idx = @ + 1]
           /\ pc' = IF loc.base_idx < Len(BaseBranches) THEN "f_pr_create" ELSE "f_sync_sw_main"
           /\ UNCHANGED <<git, changelog, config, mode, status, runs, pre>>

\* git_ops.switch_branch(branch) at statement `at`, continuing at `next`.
SwitchBranch(at, branch, next) ==
  /\ pc = at
  /\ \/ Raises("git", "switch_branch", <<branch>>)
     \/ /\ Returns("git", "switch_branch", <<branch>>)
        /\ git' = [git EXCEPT !.head = branch]
        /\ pc' = next
        /\ UNCHANGED <<hub, changelog, config, mode, loc, status, runs, pre>>

\* git_ops.pull(branch) at statement `at`, continuing at `next`.
Pull(at, branch, next) ==
  /\ pc = at
  /\ \/ Raises("git", "pull", <<branch>>)
     \/ /\ Returns("git", "pull", <<branch>>)
        /\ pc' = next
        /\ UNCHANGED <<git, hub, changelog, config, mode, loc, status, runs, pre>>

\* Lines 150-155.
FinishSyncSwitchMain == SwitchBranch("f_sync_sw_main", "main", "f_sync_pull_main")

FinishSyncPullMain == Pull("f_sync_pull_main", "main", "f_sync_sw_develop")

FinishSyncSwitchDevelop == SwitchBranch("f_sync_sw_develop", "develop", "f_sync_pull_develop")

FinishSyncPullDevelop == Pull("f_sync_pull_develop", "develop", "f_tag_sw_main")

\* A slip: the tag is made on whatever branch the sync step left checked out.
FinishTagSwitchMainSkipped ==
  /\ pc = "f_tag_sw_main"
  /\ pc' = "f_tag_create"
  /\ UNCHANGED <<git, hub, changelog, config, mode, loc, status, runs, calls, pre>>

\* Line 159.
FinishTagSwitchMain == SwitchBranch("f_tag_sw_main", "main", "f_tag_create")

\* A slip: the title carries the tag name, not the version.
ReleaseTitleWithTagName(next_version) == "Release v" \o next_version

\* The tag message and the release title (hotfix.py:160, 165).
ReleaseTitle(next_version) == "Release " \o next_version

\* Line 160.
FinishCreateTag ==
  /\ pc = "f_tag_create"
  /\ \/ Raises("git", "create_tag", <<loc.tag_name, ReleaseTitle(loc.next_version)>>)
     \/ /\ Returns("git", "create_tag", <<loc.tag_name, ReleaseTitle(loc.next_version)>>)
        /\ git' = [git EXCEPT !.tags = @ \cup {[ name |-> loc.tag_name,
                                                 message |-> ReleaseTitle(loc.next_version),
                                                 on |-> git.head ]},
                              !.latest_tag = loc.tag_name]
        /\ pc' = "f_tag_push"
        /\ UNCHANGED <<hub, changelog, config, mode, loc, status, runs, pre>>

\* Line 161.
FinishPushTags ==
  /\ pc = "f_tag_push"
  /\ \/ Raises("git", "push_tags", <<>>)
     \/ /\ Returns("git", "push_tags", <<>>)
        /\ git' = [git EXCEPT !.pushed_tags = @ \cup {t.name : t \in git.tags}]
        /\ pc' = "f_release"
        /\ UNCHANGED <<hub, changelog, config, mode, loc, status, runs, pre>>

RECURSIVE JoinWith(_, _)
\* sep.join(items)
JoinWith(sep, items) ==
  IF items = <<>> THEN ""
  ELSE IF Len(items) = 1 THEN items[1]
  ELSE items[1] \o sep \o JoinWith(sep, Tail(items))

\* release_notes (hotfix.py:164)
ReleaseNotes(fixed_items) == "## Changelog\n- " \o JoinWith("\n- ", fixed_items)

\* A slip: a release that cannot be created does not stop the run.
FinishCreateReleaseBestEffort ==
  /\ pc = "f_release"
  /\ \/ /\ calls' = Append(calls, Call("github", "repos.create_release", <<loc.tag_name>>,
                                        "fatal: repos.create_release failed"))
        /\ UNCHANGED hub
     \/ /\ Returns("github", "repos.create_release", <<loc.tag_name>>)
        /\ hub' = [hub EXCEPT !.releases = @ \cup {[ tag |-> loc.tag_name,
                                                     name |-> ReleaseTitle(loc.next_version),
                                                     body |-> ReleaseNotes(loc.fixed_items) ]}]
  /\ pc' = "f_list"
  /\ UNCHANGED <<git, changelog, config, mode, loc, status, runs, pre>>

\* Line 165.
FinishCreateRelease ==
  /\ pc = "f_release"
  /\ \/ Raises("github", "repos.create_release", <<loc.tag_name>>)
     \/ /\ Returns("github", "repos.create_release", <<loc.tag_name>>)
        /\ hub' = [hub EXCEPT !.releases = @ \cup {[ tag |-> loc.tag_name,
                                                     name |-> ReleaseTitle(loc.next_version),
                                                     body |-> ReleaseNotes(loc.fixed_items) ]}]
        /\ pc' = "f_list"
        /\ UNCHANGED <<git, changelog, config, mode, loc, status, runs, pre>>

\* A slip: 'doc' is left out of the excluded names.
BranchesToMergeIntoKeepsDoc(all_branches, current_branch) ==
  SelectSeq(all_branches,
            LAMBDA b : b \notin {"main", "develop", current_branch}
                       /\ ~StartsWith(b, "remotes/"))

\* branches_to_merge_into (hotfix.py:171)
BranchesToMergeInto(all_branches, current_branch) ==
  SelectSeq(all_branches,
            LAMBDA b : b \notin {"main", "develop", "doc", current_branch}
                       /\ ~StartsWith(b, "remotes/"))

\* The statement after the loop body has run for candidate idx of the plan.
AfterCandidate(idx, plan) == IF idx < Len(plan) THEN "f_p_switch" ELSE "f_del_remote"

\* Lines 170-171, and the entry into the loop of line 173.
FinishListBranches ==
  /\ pc = "f_list"
  /\ \/ Raises("git", "get_all_branches", <<>>)
     \/ /\ Returns("git", "get_all_branches", <<>>)
        /\ loc' = [loc EXCEPT !.branches_to_merge_into =
                                 BranchesToMergeInto(git.branches, loc.current_branch),
                              !.branch_idx = 1]
        /\ pc' = AfterCandidate(0, BranchesToMergeInto(git.branches, loc.current_branch))
        /\ UNCHANGED <<git, hub, changelog, config, mode, status, runs, pre>>

\* A slip: only merge conflicts are caught in the loop.
CaughtInLoopOnlyConflicts(msg) == Contains(StrLower(msg), "merge conflict")

\* `except GitError as e` (hotfix.py:178) catches every GitError of the loop body.
CaughtInLoop(msg) == TRUE

\* `"merge conflict" in str(e).lower()` (hotfix.py:179): guidance or a warning.
IsMergeConflict(msg) == Contains(StrLower(msg), "merge conflict")

\* A slip: a failed switch does not leave the try block; the merge of the
\* same candidate follows it.
LoopHandlesGoesOnToMerge(op, arg, msg) ==
  /\ calls' = Append(calls, Call("git", op, <<arg>>, msg))
  /\ IF op = "switch_branch"
     THEN /\ pc' = "f_p_merge"
          /\ UNCHANGED <<loc, status>>
     ELSE /\ loc' = [loc EXCEPT !.branch_idx = @ + 1]
          /\ pc' = AfterCandidate(loc.branch_idx, loc.branches_to_merge_into)
          /\ UNCHANGED status

\* The except clause of the loop for candidate `branch` and error msg: the
\* notice is printed and the loop goes on with the next candidate.
LoopHandles(op, arg, msg) ==
  /\ calls' = Append(calls, Call("git", op, <<arg>>, msg))
  /\ IF CaughtInLoop(msg)
     THEN /\ loc' = [loc EXCEPT !.branch_idx = @ + 1]
          /\ pc' = AfterCandidate(loc.branch_idx, loc.branches_to_merge_into)
          /\ UNCHANGED status
     ELSE /\ Exit(HandleException("GitError"))
          /\ UNCHANGED loc

\* Line 175.
FinishPropagateSwitch ==
  /\ pc = "f_p_switch"
  /\ LET branch == loc.branches_to_merge_into[loc.branch_idx]
     IN \/ \E msg \in GitErrors :
             /\ LoopHandles("switch_branch", branch, msg)
             /\ UNCHANGED git
        \/ /\ Returns("git", "switch_branch", <<branch>>)
           /\ git' = [git EXCEPT !.head = branch]
           /\ pc' = "f_p_merge"
           /\ UNCHANGED <<loc, status>>
  /\ UNCHANGED <<hub, changelog, config, mode, runs, pre>>

\* Lines 176-188.  A merge that reports a conflict leaves the conflict in the
\* checked-out branch.
FinishPropagateMerge ==
  /\ pc = "f_p_merge"
  /\ \/ \E msg \in GitErrors :
          /\ LoopHandles("merge_branch_locally", "main", msg)
          /\ git' = [git EXCEPT !.conflicts =
                       IF IsMergeConflict(msg) THEN @ \cup {git.head} ELSE @]
     \/ /\ Returns("git", "merge_branch_locally", <<"main">>)
        /\ git' = [git EXCEPT !.merged = @ \cup {git.head}]
        /\ loc' = [loc EXCEPT !.branch_idx = @ + 1]
        /\ pc' = AfterCandidate(loc.branch_idx, loc.branches_to_merge_into)
        /\ UNCHANGED status
  /\ UNCHANGED <<hub, changelog, config, mode, runs, pre>>

\* A slip: the remote branch is left in place.
FinishDeleteRemoteSkipped ==
  /\ pc = "f_del_remote"
  /\ pc' = "f_del_local"
  /\ UNCHANGED <<git, hub, changelog, config, mode, loc, status, runs, calls, pre>>

\* Line 192.
FinishDeleteRemote ==
  /\ pc = "f_del_remote"
  /\ \/ Raises("git", "delete_remote_branch", <<loc.current_branch>>)
     \/ /\ Returns("git", "delete_remote_branch", <<loc.current_branch>>)
        /\ git' = [git EXCEPT !.remote_branches = @ \ {loc.current_branch}]
        /\ pc' = "f_del_local"
        /\ UNCHANGED <<hub, changelog, config, mode, loc, status, runs, pre>>

\* Line 193.
FinishDeleteLocal ==
  /\ pc = "f_del_local"
  /\ \/ Raises("git", "delete_local_branch", <<loc.current_branch>>)
     \/ /\ Returns("git", "delete_local_branch", <<loc.current_branch>>)
        /\ git' = [git EXCEPT !.branches = SelectSeq(@, LAMBDA b : b # loc.current_branch)]
        /\ pc' = "f_clean_sw_main"
        /\ UNCHANGED <<hub, changelog, config, mode, loc, status, runs, pre>>

\* Line 194.
FinishCleanupSwitchMain == SwitchBranch("f_clean_sw_main", "main", "f_config")

\* Lines 197-198.
FinishSetLastUsed ==
  /\ pc = "f_config"
  /\ SetLastUsed(loc.target_path)
  /\ Exit("success")
  /\ UNCHANGED <<git, hub, changelog, mode, loc, runs, calls, pre>>

FinishHotfix ==
  \/ FinishResolve
  \/ FinishCheckBranch
  \/ FinishReadTag
  \/ FinishPromptItems
  \/ FinishBuildEntry
  \/ FinishWriteChangelog
  \/ FinishAdd
  \/ FinishCommit
  \/ FinishPromptDescription
  \/ FinishPush
  \/ FinishGetRepo
  \/ FinishCreatePr
  \/ FinishMergePr
  \/ FinishSyncSwitchMain
  \/ FinishSyncPullMain
  \/ FinishSyncSwitchDevelop
  \/ FinishSyncPullDevelop
  \/ FinishTagSwitchMain
  \/ FinishCreateTag
  \/ FinishPushTags
  \/ FinishCreateRelease
  \/ FinishListBranches
  \/ FinishPropagateSwitch
  \/ FinishPropagateMerge
  \/ FinishDeleteRemote
  \/ FinishDeleteLocal
  \/ FinishCleanupSwitchMain
  \/ FinishSetLastUsed

Next == Invoke \/ StartHotfix \/ FinishHotfix

Spec == Init /\ [][Next]_vars

(***************************************************************************)
(* Specifications for the pure steps: the inputs of one step are drawn     *)
(* widely, in the state the run is in when it reaches the step.            *)
(***************************************************************************)

\* The hotfix branch of the runs below.
TheHotfixBranch == "hotfix/42-fix"

\* A repository on branch `head` with listing `branches` and latest tag `tag`.
Repository(head, branches, tag) ==
  [ head |-> head, branches |-> branches, remote_branches |-> {"main", "develop"},
    latest_tag |-> tag, tags |-> {}, pushed_tags |-> {},
    staged |-> FALSE, commits |-> <<>>, conflicts |-> {},
    merged |-> {} ]

\* "X.Y.Z"
VersionStr(x, y, z) == IntToStr(x) \o "." \o IntToStr(y) \o "." \o IntToStr(z)

\* The version numbers drawn, and their tags vX.Y.Z.
VersionTriples == (0..MaxVersion) \X (0..MaxVersion) \X (0..MaxVersion)

VersionTags == {"v" \o VersionStr(v[1], v[2], v[3]) : v \in VersionTriples}

\* Each tag vX.Y.Z paired with X.Y.(Z+1).
PatchAfter ==
  {<<"v" \o VersionStr(v[1], v[2], v[3]), VersionStr(v[1], v[2], v[3] + 1)>> : v \in VersionTriples}

\* A finish run that has passed its branch check, over every latest tag
\* vX.Y.Z, no tag at all, and tags that are not of that form.
InitVersion ==
  /\ \E t \in VersionTags \cup {None, "", "1.2.3", "vv1.2.3", "v1.2", "v1.2.3-rc1", "v1.2.3.4"} :
       git = Repository(TheHotfixBranch, <<"main", "develop", TheHotfixBranch>>, t)
  /\ hub = [ issues |-> {}, prs |-> <<>>, releases |-> {} ]
  /\ changelog = None
  /\ config = EmptyConfig
  /\ pc = "f_tag"
  /\ mode = "finish"
  /\ loc = [NoLocals EXCEPT !.target_path = TargetPath, !.current_branch = TheHotfixBranch]
  /\ status = "running"
  /\ runs = 1
  /\ calls = <<Call("git", "get_current_branch", <<>>, "")>>
  /\ pre = World

NextVersion == FinishReadTag

SpecVersion == InitVersion /\ [][NextVersion]_vars

\* The most names a drawn branch listing has.
MaxBranches == 3

\* Names a branch listing may hold: the excluded names, variants of them in
\* other letter case, other local branches and remote-tracking names.
ListedNames ==
  { "main", "develop", "doc", TheHotfixBranch, "Main", "DOC", "Hotfix/42-fix",
    "feature/a", "docs", "remotes/origin/main", "remotes/origin/feature/a" }

RECURSIVE Listings(_)
\* The listings of at most n names, without repetition, in every order.
Listings(n) ==
  IF n = 0 THEN {<<>>}
  ELSE LET shorter == Listings(n - 1)
       IN shorter \cup {Append(L, b) : L \in shorter, b \in ListedNames}

DrawnListings == {L \in Listings(MaxBranches) : \A i, j \in 1..Len(L) : i # j => L[i] # L[j]}

\* A finish run that has published its release, over every drawn listing.
InitBranches ==
  /\ \E L \in DrawnListings :
       git = [Repository("main", L, "v0.0.1") EXCEPT
                !.remote_branches = {"main", "develop", TheHotfixBranch},
                !.tags = {[name |-> "v0.0.1", message |-> "Release 0.0.1", on |-> "main"]},
                !.pushed_tags = {"v0.0.1"},
                !.commits = <<CommitMessage("0.0.1")>>]
  /\ hub = [ issues |-> {},
             prs |-> << [ title |-> PrTitle(TheHotfixBranch), body |-> PrBody("42", "desc"),
                          head |-> TheHotfixBranch, base |-> "main",
                          labels |-> Labels, merged |-> TRUE ],
                        [ title |-> PrTitle(TheHotfixBranch), body |-> PrBody("42", "desc"),
                          head |-> TheHotfixBranch, base |-> "develop",
                          labels |-> Labels, merged |-> TRUE ] >>,
             releases |-> {[ tag |-> "v0.0.1", name |-> "Release 0.0.1",
                             body |-> ReleaseNotes(<<"a">>) ]} ]
  /\ changelog = WriteChangelog(None, NewEntry("0.0.1",
                   ReleaseLink(FormatGitUrlToHttp(RemoteUrl), "v0.0.1"), Today, <<"a">>))
  /\ config = EmptyConfig
  /\ pc = "f_list"
  /\ mode = "finish"
  /\ loc = [NoLocals EXCEPT !.target_path = TargetPath, !.current_branch = TheHotfixBranch,
                            !.repo = RepoName, !.next_version = "0.0.1", !.tag_name = "v0.0.1",
                            !.typed = <<"a", "">>, !.fixed_items = <<"a">>,
                            !.new_entry = NewEntry("0.0.1",
                               ReleaseLink(FormatGitUrlToHttp(RemoteUrl), "v0.0.1"), Today, <<"a">>),
                            !.pr_body = PrBody("42", "desc"), !.base_idx = 3, !.pr = 2]
  /\ status = "running"
  /\ runs = 1
  /\ calls = <<>>
  /\ pre = [ git |-> Repository(TheHotfixBranch, git.branches, None), hub |-> [ issues |-> {}, prs |-> <<>>, releases |-> {} ],
             changelog |-> None, config |-> config ]

NextBranches ==
  \/ FinishListBranches
  \/ FinishPropagateSwitch
  \/ FinishPropagateMerge

SpecBranches == InitBranches /\ [][NextBranches]_vars

\* The longest hotfix name drawn.
MaxNameLen == 3

\* The characters of the drawn hotfix names.
NameChars == {"F", "b", " ", "-"}

RECURSIVE Names(_)
\* The strings of at most n name characters.
Names(n) ==
  IF n = 0 THEN {""}
  ELSE LET shorter == Names(n - 1)
       IN shorter \cup {s \o c : s \in shorter, c \in NameChars}

DrawnNames == (Names(MaxNameLen) \ {""}) \cup {"Fix login bug", "URGENT  Fix"}

\* Issue numbers of one, two and three digits.
DrawnIssueNumbers == {1, 9, 42, 100}

\* A start run on 'main' whose issue has just been created, over every drawn
\* hotfix name and issue number.
InitSlug ==
  /\ git = Repository("main", <<"main", "develop">>, None)
  /\ \E n \in DrawnNames, k \in DrawnIssueNumbers :
       /\ hub = [ issues |-> {[ number |-> k, title |-> n,
                                body |-> "Hotfix to address: " \o n, labels |-> Labels ]},
                  prs |-> <<>>, releases |-> {} ]
       /\ loc = [NoLocals EXCEPT !.hotfix_name = n, !.target_path = TargetPath,
                                 !.current_branch = "main", !.repo = RepoName,
                                 !.issue_number = k]
       /\ calls = << Call("git", "get_current_branch", <<>>, ""),
                     Call("github", "repos.get", <<RepoName>>, ""),
                     Call("github", "issues.create", <<n>>, "") >>
  /\ changelog = None
  /\ config = EmptyConfig
  /\ pc = "s_branch"
  /\ mode = "start"
  /\ status = "running"
  /\ runs = 1
  /\ pre = [ git |-> git, hub |-> [ issues |-> {}, prs |-> <<>>, releases |-> {} ],
             changelog |-> changelog, config |-> config ]

NextSlug ==
  \/ StartCreateBranch
  \/ StartSwitchBranch
  \/ StartSetLastUsed

SpecSlug == InitSlug /\ [][NextSlug]_vars

(***************************************************************************)
(* The changelog-write step on drawn files and items                       *)
(***************************************************************************)

\* CHANGELOG.md contents the write step is run on.
DrawnFiles ==
  { None, "", FileWithHeading, FileHeadingNoBlank,
    "# Changelog\n\nIntro.\n\n## [1.2.9](u)\n- old\n\n# Changelog\n\nAgain.\n\nend\n",
    "# Changelog\n\n## [1.2.9](u)\n### Fixed\n- old\n\n## [1.2.8](u)\n- older\n",
    "Preface\n\n# Changelog\n\nIntro.\n\nrest\n",
    "## Changelog\n\nIntro.\n\nrest\n",
    "# Changelog\n\n\n\nrest\n",
    "# Changelog\n\nIntro.\n",
    "# Changelog\nIntro.\n\n# Changelog\n\nSecond.\n\nend\n" }

\* Fixed items the entry is rendered from; some hold a backslash, which the
\* replacement template of re.sub interprets.
DrawnItems ==
  { <<"a">>, <<"a", "b">>, <<"C:\\new">>, <<"C:\\dir">>, <<"x\\1y">>, <<"p\\\\q">> }

InitChangelog ==
  /\ git = Repository(TheHotfixBranch, <<"main", "develop", TheHotfixBranch>>, "v1.2.9")
  /\ hub = [ issues |-> {}, prs |-> <<>>, releases |-> {} ]
  /\ changelog \in DrawnFiles
  /\ config = EmptyConfig
  /\ pc = "f_url"
  /\ mode = "finish"
  /\ \E items \in DrawnItems :
       loc = [NoLocals EXCEPT !.target_path = TargetPath, !.current_branch = TheHotfixBranch,
                              !.latest_tag = "v1.2.9", !.next_version = "1.2.10",
                              !.tag_name = "v1.2.10",
                              !.typed = Append(items, ""), !.fixed_items = items]
  /\ status = "running"
  /\ runs = 1
  /\ calls = << Call("git", "get_current_branch", <<>>, ""),
                Call("git", "get_latest_tag", <<>>, "") >>
  /\ pre = World

NextChangelog == FinishBuildEntry \/ FinishWriteChangelog

SpecChangelog == InitChangelog /\ [][NextChangelog]_vars

(***************************************************************************)
(* Vocabulary of the properties                                            *)
(***************************************************************************)

\* The positions of the call log.
CallIdx == 1..Len(calls)

\* Call i of the current invocation returned.
Returned(i) == calls[i].err = ""

\* Some call of operation op returned.
Did(op) == \E i \in CallIdx : calls[i].op = op /\ Returned(i)

\* Some call of operation op with arguments args returned.
DidWith(op, args) == \E i \in CallIdx : calls[i].op = op /\ calls[i].args = args /\ Returned(i)

\* Operation op was called, whether it returned or raised.
Called(op) == \E i \in CallIdx : calls[i].op = op

\* The elements of a sequence.
ToSet(seq) == {seq[i] : i \in 1..Len(seq)}

\* The number of (possibly overlapping) occurrences of p in s.
Count(s, p) == Cardinality(Occurrences(s, p))

\* The pull requests the current invocation created.
NewPrs == SubSeq(hub.prs, Len(pre.hub.prs) + 1, Len(hub.prs))

(***************************************************************************)
(* C1                                                                      *)
(***************************************************************************)

\* C1: once a finish run has computed its version, a latest tag vX.Y.Z gave
\* the version X.Y.(Z+1), no latest tag gave 0.0.1, and the run's tag name is
\* "v" followed by the version.
C1_NextPatchVersion ==
  (mode = "finish" /\ loc.tag_name # None) =>
    /\ Falsy(loc.latest_tag) => loc.next_version = "0.0.1"
    /\ loc.latest_tag \in VersionTags => <<loc.latest_tag, loc.next_version>> \in PatchAfter
    /\ loc.tag_name = "v" \o loc.next_version

\* A run has computed 1.2.10 from v1.2.9: the patch number carries.
C1_Witness ==
  /\ mode = "finish" /\ pc = "f_items"
  /\ loc.latest_tag = "v1.2.9" /\ loc.next_version = "1.2.10" /\ loc.tag_name = "v1.2.10"

\* A run without a prior tag has computed 0.0.1.
C1_WitnessNoTag ==
  mode = "finish" /\ pc = "f_items" /\ loc.latest_tag = None /\ loc.next_version = "0.0.1"


(***************************************************************************)
(* C2                                                                      *)
(***************************************************************************)

\* C2: a start run that found the repository on a branch other than exactly
\* 'main' has ended with an error and has changed nothing: no issue, no branch
\* created or switched to, no config write.  And no start run calls the
\* code-hosting provider before it has read the current branch and found 'main'.
C2_StartOffMainNoEffect ==
  mode = "start" =>
    /\ loc.current_branch \notin {None, "main"} =>
         /\ pc = "idle" /\ status = "error"
         /\ World = pre
         /\ \A i \in CallIdx :
              calls[i].prov # "github" /\ calls[i].op \notin {"create_branch", "switch_branch"}
    /\ \A i \in CallIdx :
         calls[i].prov = "github" =>
           /\ loc.current_branch = "main"
           /\ \E j \in 1..(i - 1) : calls[j].op = "get_current_branch" /\ Returned(j)

\* A start run on 'Main' has ended with an error.
C2_Witness ==
  mode = "start" /\ pc = "idle" /\ status = "error" /\ loc.current_branch = "Main"

(***************************************************************************)
(* C3                                                                      *)
(***************************************************************************)

\* C3: a finish run that found the repository on a branch whose name does not
\* start with 'hotfix/' has ended with an error after that one read, and has
\* changed nothing in the repository, the hosting provider, the changelog or
\* the config store.
C3_FinishOffHotfixNoEffect ==
  (mode = "finish" /\ loc.current_branch # None /\ ~StartsWith(loc.current_branch, "hotfix/")) =>
    /\ pc = "idle" /\ status = "error"
    /\ World = pre
    /\ calls = <<Call("git", "get_current_branch", <<>>, "")>>

\* A finish run on 'Hotfix/1-a' has ended with an error.
C3_Witness ==
  mode = "finish" /\ pc = "idle" /\ status = "error" /\ loc.current_branch = "Hotfix/1-a"

(***************************************************************************)
(* C4                                                                      *)
(***************************************************************************)

\* C4: a finish run whose operator typed an empty first line at the changelog
\* prompt has ended with an error, having only read the current branch and the
\* latest tag: the changelog, the repository and the hosting provider are as
\* the run found them.
C4_NoItemsNoWrite ==
  (mode = "finish" /\ loc.typed # <<>> /\ loc.typed[1] = "") =>
    /\ pc = "idle" /\ status = "error"
    /\ World = pre
    /\ \A i \in CallIdx : calls[i].op \in {"get_current_branch", "get_latest_tag"}

\* A finish run on an existing changelog was given no items and ended.
C4_Witness ==
  /\ mode = "finish" /\ pc = "idle" /\ status = "error"
  /\ loc.typed = <<"">> /\ changelog # None /\ changelog # ""

(***************************************************************************)
(* C5                                                                      *)
(***************************************************************************)

\* The finish run is at, or has been at, the local-sync step.
ReachedSync == mode = "finish" /\ (pc = "f_sync_sw_main" \/ Called("switch_branch"))

\* C5: a finish run that has reached the local-sync step made exactly four
\* pull-request calls, one right after the other and all returning: create
\* into 'main', merge it, create into 'develop', merge it; and it created
\* exactly two pull requests, from the hotfix branch, into 'main' and into
\* 'develop' in that order, both merged.
C5_TwoPrsMainThenDevelop ==
  ReachedSync =>
    /\ \E k \in CallIdx :
         /\ k + 3 <= Len(calls)
         /\ SubSeq(calls, k, k + 3) =
              << Call("github", "prs.create", <<loc.current_branch, "main">>, ""),
                 Call("github", "prs.merge", <<loc.current_branch, "main">>, ""),
                 Call("github", "prs.create", <<loc.current_branch, "develop">>, ""),
                 Call("github", "prs.merge", <<loc.current_branch, "develop">>, "") >>
         /\ \A i \in CallIdx :
              calls[i].op \in {"prs.create", "prs.merge"} => i \in k..(k + 3)
    /\ Len(NewPrs) = 2
    /\ \A i \in 1..2 : NewPrs[i].head = loc.current_branch /\ NewPrs[i].merged
    /\ NewPrs[1].base = "main" /\ NewPrs[2].base = "develop"

\* A finish run is at the local-sync step with its two pull requests merged.
C5_Witness ==
  /\ mode = "finish" /\ pc = "f_sync_sw_main"
  /\ Len(NewPrs) = 2 /\ NewPrs[1].merged /\ NewPrs[2].merged

(***************************************************************************)
(* C6                                                                      *)
(***************************************************************************)

\* The finish run was ended by a provider error or an interrupt before the
\* propagation phase.
AbortedInSteps1To9 ==
  /\ mode = "finish" /\ pc = "idle" /\ status \in {"error", "cancelled"}
  /\ ~Called("get_all_branches")

\* C6: a finish run ended by a provider error or an interrupt in steps 1-9 made
\* no call after the failing one and did not repeat it (every call before the
\* last returned), and everything the calls that returned did is still there
\* while nothing of the later steps is: the changelog as written, the commit,
\* the pushed branch, each pull request created and merged; no tag, pushed
\* tags or release unless its call returned; the hotfix branch neither deleted nor
\* merged anywhere, the config store unwritten.  With the merge into 'develop'
\* failing, the pull request into 'main' is still merged.
C6_HaltsWithoutRollback ==
  AbortedInSteps1To9 =>
    /\ \A i \in 1..(Len(calls) - 1) : Returned(i)
    /\ changelog = IF Called("add") THEN WriteChangelog(pre.changelog, loc.new_entry)
                   ELSE pre.changelog
    /\ git.commits = IF Did("commit")
                     THEN Append(pre.git.commits, CommitMessage(loc.next_version))
                     ELSE pre.git.commits
    /\ git.remote_branches = IF Did("push_branch")
                             THEN pre.git.remote_branches \cup {loc.current_branch}
                             ELSE pre.git.remote_branches
    /\ Len(NewPrs) = Cardinality({i \in CallIdx : calls[i].op = "prs.create" /\ Returned(i)})
    /\ \A i \in 1..Len(NewPrs) :
         /\ NewPrs[i].base = BaseBranches[i] /\ NewPrs[i].head = loc.current_branch
         /\ NewPrs[i].merged = DidWith("prs.merge", <<loc.current_branch, NewPrs[i].base>>)
    /\ SubSeq(hub.prs, 1, Len(pre.hub.prs)) = pre.hub.prs
    /\ git.tags = IF Did("create_tag")
                  THEN pre.git.tags \cup {[ name |-> loc.tag_name,
                                            message |-> "Release " \o loc.next_version,
                                            on |-> "main" ]}
                  ELSE pre.git.tags
    /\ git.pushed_tags = IF Did("push_tags")
                         THEN pre.git.pushed_tags \cup {t.name : t \in git.tags}
                         ELSE pre.git.pushed_tags
    /\ hub.releases = IF Did("repos.create_release")
                      THEN pre.hub.releases \cup {[ tag |-> loc.tag_name,
                                                     name |-> "Release " \o loc.next_version,
                                                     body |-> ReleaseNotes(loc.fixed_items) ]}
                      ELSE pre.hub.releases
    /\ git.branches = pre.git.branches
    /\ git.conflicts = pre.git.conflicts /\ git.merged = pre.git.merged
    /\ hub.issues = pre.hub.issues
    /\ config = pre.config
    /\ ~Called("merge_branch_locally") /\ ~Called("delete_remote_branch") /\ ~Called("delete_local_branch")
    /\ (Len(calls) > 0 /\ calls[Len(calls)].op = "prs.merge"
          /\ calls[Len(calls)].args = <<loc.current_branch, "develop">> /\ ~Returned(Len(calls))) =>
         /\ NewPrs[1].base = "main" /\ NewPrs[1].merged
         /\ ~NewPrs[2].merged
         /\ Did("commit") /\ loc.current_branch \in git.remote_branches
         /\ ~Called("create_tag") /\ ~Called("repos.create_release")

\* A finish run was ended by the failure of the merge into 'develop'.
C6_Witness ==
  /\ AbortedInSteps1To9 /\ status = "error"
  /\ Len(calls) > 0
  /\ calls[Len(calls)].op = "prs.merge"
  /\ calls[Len(calls)].args = <<loc.current_branch, "develop">>
  /\ ~Returned(Len(calls))
  /\ NewPrs[1].merged

(***************************************************************************)
(* C7                                                                      *)
(***************************************************************************)

\* Call i is a call of the propagation loop: a merge of 'main', or a switch to
\* a candidate of the plan.
LoopCall(i) ==
  \/ calls[i].op = "merge_branch_locally"
  \/ calls[i].op = "switch_branch" /\ InList(loc.branches_to_merge_into, calls[i].args[1])

\* The candidates the run switched to, or tried to, in the order of the tries.
Attempted ==
  LET tries == SelectSeq(calls, LAMBDA c :
                 c.op = "switch_branch" /\ InList(loc.branches_to_merge_into, c.args[1]))
  IN [i \in 1..Len(tries) |-> tries[i].args[1]]

\* The finish run has left the propagation loop.
LoopOver ==
  mode = "finish" /\ Did("get_all_branches") /\ pc \notin {"f_p_switch", "f_p_merge"}

\* C7: no finish run is ended by the failure of a call of the propagation
\* loop; a run that has left the loop, whatever failed in it, has tried every
\* candidate of the plan exactly once, in the order of the plan, and has gone
\* on to the cleanup (it is at it, or past it).
C7_PropagationIsBestEffort ==
  /\ (mode = "finish" /\ pc = "idle" /\ Len(calls) > 0 /\ ~Returned(Len(calls)))
       => ~LoopCall(Len(calls))
  /\ LoopOver =>
       /\ Attempted = loc.branches_to_merge_into
       /\ pc = "f_del_remote" \/ Called("delete_remote_branch")

\* A finish run has succeeded although a merge into a candidate reported a
\* conflict, and a later candidate was tried after it.
C7_Witness ==
  /\ mode = "finish" /\ pc = "idle" /\ status = "success"
  /\ \E i, j \in CallIdx :
       /\ i < j
       /\ calls[i].op = "merge_branch_locally" /\ IsMergeConflict(calls[i].err)
       /\ calls[j].op = "switch_branch" /\ LoopCall(j)

(***************************************************************************)
(* C8                                                                      *)
(***************************************************************************)

\* C8: while the listing is as the provider returned it, the candidates are
\* the listed names other than exactly 'main', 'develop', 'doc' and the
\* current hotfix branch that do not start with 'remotes/', each once; names
\* that differ from an excluded name in letter case only are candidates, and
\* the order of the listing does not matter to which names are.
C8_PlanExcludes ==
  (mode = "finish" /\ Did("get_all_branches") /\ ~Called("delete_local_branch")) =>
    /\ ToSet(loc.branches_to_merge_into) =
         (ToSet(git.branches) \ {"main", "develop", "doc", loc.current_branch})
           \ {b \in ToSet(git.branches) : StartsWith(b, "remotes/")}
    /\ Len(loc.branches_to_merge_into) = Cardinality(ToSet(loc.branches_to_merge_into))

\* A listing with 'doc' and two names in other letter case gave those two.
C8_Witness ==
  /\ mode = "finish" /\ pc = "f_p_switch"
  /\ git.branches = <<"DOC", "doc", "Main">>
  /\ loc.branches_to_merge_into = <<"DOC", "Main">>

(***************************************************************************)
(* C9                                                                      *)
(***************************************************************************)

\* The text after the prefix of the branch a start run made.
SlugOf(branch, prefix) == Drop(branch, Len(prefix) + 1)

\* C9: a start run that succeeded for name N and issue number K has checked
\* out, and listed, the branch 'hotfix/K-' followed by N with each space made
\* a hyphen and each uppercase letter lowercase, character by character, and
\* created it with start point 'main'; 'Fix login bug' and 42 give
\* 'hotfix/42-fix-login-bug'.
C9_BranchNameIsSlug ==
  (mode = "start" /\ pc = "idle" /\ status = "success") =>
    LET prefix == "hotfix/" \o IntToStr(loc.issue_number) \o "-"
        slug == SlugOf(git.head, prefix)
        name == loc.hotfix_name
    IN /\ StartsWith(git.head, prefix)
       /\ Len(slug) = Len(name)
       /\ \A i \in 1..Len(name) :
            Char(slug, i) = IF Char(name, i) = " " THEN "-"
                            ELSE IF Char(name, i) \in UpperChars THEN ToLower[Char(name, i)]
                            ELSE Char(name, i)
       /\ InList(git.branches, git.head)
       /\ DidWith("create_branch", <<git.head, "main">>)
       /\ DidWith("switch_branch", <<git.head>>)
       /\ (name = "Fix login bug" /\ loc.issue_number = 42) => git.head = "hotfix/42-fix-login-bug"

\* The start run for 'Fix login bug' and issue 42 has succeeded.
C9_Witness ==
  /\ mode = "start" /\ pc = "idle" /\ status = "success"
  /\ loc.hotfix_name = "Fix login bug" /\ loc.issue_number = 42
  /\ git.head = "hotfix/42-fix-login-bug"

(***************************************************************************)
(* C10                                                                     *)
(***************************************************************************)

\* C10, as claimed: right after the changelog-write step on an existing file,
\* the file holds the new entry exactly once and is the old content with the
\* entry (and at most the newline that separates it) put in at one place.
C10_EntryInsertedOnce ==
  (mode = "finish" /\ pc = "f_add" /\ pre.changelog # None) =>
    /\ Count(changelog, loc.new_entry) = 1
    /\ \E k \in 0..Len(pre.changelog), sep \in {"", "\n"} :
         changelog = SubSeq(pre.changelog, 1, k) \o loc.new_entry \o sep
                       \o Drop(pre.changelog, k + 1)

(***************************************************************************)
(* C11                                                                     *)
(***************************************************************************)

\* The number of digits that follow the first seven characters of branch.
DigitRun(branch) ==
  CHOOSE k \in 0..Len(branch) :
    /\ 7 + k <= Len(branch)
    /\ \A i \in 1..k : Char(branch, 7 + i) \in DigitChars
    /\ 7 + k < Len(branch) => Char(branch, 8 + k) \notin DigitChars

\* C11: in a finish run, every pull request the run created has the body
\* 'Closes #n', an empty line, then the operator's description, when the
\* hotfix branch has the digits n right after 'hotfix/', and has the
\* description alone as its body when no digit follows 'hotfix/'; for a branch
\* that a start run made for issue K, n is K.
C11_PrBodyClosesIssue ==
  mode = "finish" =>
    \A i \in 1..Len(NewPrs) :
      LET b == loc.current_branch
          n == SubSeq(b, 8, 7 + DigitRun(b))
      IN /\ NewPrs[i].body = loc.pr_body
         /\ n # "" => \E d \in Descriptions : NewPrs[i].body = "Closes #" \o n \o "\n\n" \o d
         /\ n = "" => NewPrs[i].body \in Descriptions
         /\ \A K \in IssueNumbers, N \in HotfixNames :
              b = BranchName(K, N) => StartsWith(NewPrs[i].body, "Closes #" \o IntToStr(K) \o "\n\n")

\* A finish run on the branch a start run made for issue 7 has created both
\* pull requests with 'Closes #7'.
C11_Witness ==
  /\ mode = "finish" /\ Len(NewPrs) = 2
  /\ loc.current_branch = "hotfix/7-fix-login-bug"
  /\ \E x \in pre.hub.issues : x.number = 7
  /\ NewPrs[1].body = "Closes #7\n\ndesc" /\ NewPrs[2].body = "Closes #7\n\ndesc"

\* A finish run on 'hotfix/fix' has created a pull request with the bare
\* description.
C11_WitnessNoNumber ==
  mode = "finish" /\ Len(NewPrs) >= 1 /\ loc.current_branch = "hotfix/fix" /\ NewPrs[1].body = "desc"

(***************************************************************************)
(* C12                                                                     *)
(***************************************************************************)

\* The finish run has ended with success.
FinishSucceeded == mode = "finish" /\ pc = "idle" /\ status = "success"

\* C12: a finish run that has ended with success has deleted the hotfix
\* branch remotely and locally, has 'main' checked out and has stored its
\* target as the last used one, whatever happened to the candidates of the
\* propagation.
C12_SuccessCleansUp ==
  FinishSucceeded =>
    /\ loc.current_branch \notin git.remote_branches
    /\ ~InList(git.branches, loc.current_branch)
    /\ git.head = "main"
    /\ config.last_used_microservice = loc.target_path
    /\ DidWith("delete_remote_branch", <<loc.current_branch>>)
    /\ DidWith("delete_local_branch", <<loc.current_branch>>)

\* A finish run has succeeded after a conflict on one candidate and a failed
\* switch to another.
C12_Witness ==
  /\ FinishSucceeded
  /\ loc.current_branch \notin git.remote_branches /\ git.head = "main"
  /\ \E i, j \in CallIdx :
       /\ calls[i].op = "merge_branch_locally" /\ IsMergeConflict(calls[i].err)
       /\ calls[j].op = "switch_branch" /\ LoopCall(j) /\ ~Returned(j)

\* A finish run has succeeded with no candidate to propagate to.
C12_WitnessNoCandidates ==
  FinishSucceeded /\ loc.branches_to_merge_into = <<>> /\ Did("get_all_branches")

\* A finish run has succeeded with 'main' merged into every candidate.
C12_WitnessAllMerged ==
  /\ FinishSucceeded /\ Len(loc.branches_to_merge_into) = 2
  /\ \A i \in CallIdx : Returned(i)

(***************************************************************************)
(* C13                                                                     *)
(***************************************************************************)

\* The write step has just run on an existing file.
WroteExisting == mode = "finish" /\ pc = "f_add" /\ pre.changelog # None

\* The least element of a non-empty set of numbers.
Min(S) == CHOOSE x \in S : \A y \in S : x <= y

\* The first place in content where '# Changelog' and an empty line stand.
FirstHeading(content) == Min(Occurrences(content, "# Changelog\n\n"))

\* C13, as claimed: when the existing file has the heading '# Changelog'
\* followed by a blank line, the new entry stands directly after that blank
\* line, before any other text.
C13_AfterFirstBlankLine ==
  (WroteExisting /\ Occurrences(pre.changelog, "# Changelog\n\n") # {}) =>
    LET old == pre.changelog
        at == FirstHeading(old) + Len("# Changelog\n\n") - 1
    IN SubSeq(changelog, 1, at + Len(loc.new_entry)) = SubSeq(old, 1, at) \o loc.new_entry

\* The end of the first blank line at or after the text that follows the
\* first heading-and-blank-line of content; 0 when there is none.
InsertionPoint(content) ==
  IF Occurrences(content, "# Changelog\n\n") = {} THEN 0
  ELSE LET from == FirstHeading(content) + Len("# Changelog\n\n")
           blanks == {q \in Occurrences(content, "\n\n") : q >= from}
       IN IF blanks = {} THEN 0 ELSE Min(blanks) + 1

\* C13, amended: the write step on an existing file puts the entry after the
\* first blank line that comes after the text following the first
\* '# Changelog' and its blank line (after the heading's first paragraph, not
\* before it), keeps everything before and after that point as it was, later
\* headings included, and inserts the entry followed by one newline when the
\* entry holds no backslash; a file with no such place is left as it was.
C13_AfterFirstParagraph ==
  WroteExisting =>
    LET old == pre.changelog
        at == InsertionPoint(old)
        grown == Len(changelog) - Len(old)
    IN IF at = 0 THEN changelog = old
       ELSE /\ grown >= 0
            /\ SubSeq(changelog, 1, at) = SubSeq(old, 1, at)
            /\ Drop(changelog, at + grown + 1) = Drop(old, at + 1)
            /\ ~Contains(loc.new_entry, "\\") =>
                 SubSeq(changelog, at + 1, at + grown) = loc.new_entry \o "\n"

\* The entry was put after the first paragraph of a file with two headings;
\* the second heading and what follows it are as before.
C13_Witness ==
  /\ WroteExisting
  /\ pre.changelog = "# Changelog\n\nIntro.\n\n## [1.2.9](u)\n- old\n\n# Changelog\n\nAgain.\n\nend\n"
  /\ loc.fixed_items = <<"a", "b">>
  /\ changelog = "# Changelog\n\nIntro.\n\n" \o loc.new_entry
                   \o "\n## [1.2.9](u)\n- old\n\n# Changelog\n\nAgain.\n\nend\n"

(***************************************************************************)
(* C14                                                                     *)
(***************************************************************************)

\* A call of operation op with arguments args returned before call i.
DidBefore(i, op, args) ==
  \E j \in 1..(i - 1) : calls[j].op = op /\ calls[j].args = args /\ Returned(j)

\* Both pull requests of hotfix branch b, into 'main' and into 'develop', are
\* merged.
BothMerged(b) ==
  \A base \in {"main", "develop"} :
    \E i \in 1..Len(hub.prs) :
      hub.prs[i].head = b /\ hub.prs[i].base = base /\ hub.prs[i].merged

\* C14: in a finish run the tag is created right after a switch to 'main'
\* that returned, with 'main' checked out, and after both pull requests were
\* merged and 'main' and 'develop' pulled; tags are pushed only after the tag
\* was created, and the release is created only after the tags were pushed.
\* In every state, a release has its tag pushed, a pushed tag exists and was
\* made on 'main', and a tag exists only with both pull requests of some
\* hotfix branch merged.
C14_TagAndReleaseOrder ==
  /\ mode = "finish" =>
       /\ \A i \in CallIdx :
            /\ calls[i].op = "create_tag" =>
                 /\ i > 1 /\ calls[i - 1] = Call("git", "switch_branch", <<"main">>, "")
                 /\ DidBefore(i, "prs.merge", <<loc.current_branch, "main">>)
                 /\ DidBefore(i, "prs.merge", <<loc.current_branch, "develop">>)
                 /\ DidBefore(i, "pull", <<"main">>)
                 /\ DidBefore(i, "pull", <<"develop">>)
            /\ calls[i].op = "push_tags" =>
                 i > 1 /\ calls[i - 1].op = "create_tag" /\ Returned(i - 1)
            /\ calls[i].op = "repos.create_release" =>
                 i > 1 /\ calls[i - 1].op = "push_tags" /\ Returned(i - 1)
       /\ pc = "f_tag_create" => git.head = "main"
       /\ Did("repos.create_release") => loc.tag_name \in git.pushed_tags
       /\ Did("push_tags") => BothMerged(loc.current_branch)
  /\ \A r \in hub.releases : r.tag \in git.pushed_tags
  /\ \A n \in git.pushed_tags : \E t \in git.tags : t.name = n
  /\ \A t \in git.tags : t.on = "main" /\ \E i \in 1..Len(hub.prs) : BothMerged(hub.prs[i].head)

\* A finish run has created its release: the tag is on 'main' and pushed.
C14_Witness ==
  /\ mode = "finish" /\ Did("repos.create_release")
  /\ \E r \in hub.releases : r.tag = loc.tag_name
  /\ loc.tag_name \in git.pushed_tags
  /\ \E t \in git.tags : t.name = loc.tag_name /\ t.on = "main"

(***************************************************************************)
(* C15                                                                     *)
(***************************************************************************)

\* C15, as claimed: once a merge of 'main' into a candidate has reported a
\* conflict, the finish run makes no further switch of branch, so that the
\* conflicted branch stays checked out.
C15_StaysOnConflictedBranch ==
  mode = "finish" =>
    \A i \in CallIdx :
      (calls[i].op = "merge_branch_locally" /\ IsMergeConflict(calls[i].err)) =>
        \A j \in (i + 1)..Len(calls) : calls[j].op # "switch_branch"

(***************************************************************************)
(* C16                                                                     *)
(***************************************************************************)

\* The calls of a start run that succeeds for name n, issue number k, in order.
StartCalls(n, k) ==
  << Call("git", "get_current_branch", <<>>, ""),
     Call("github", "repos.get", <<RepoName>>, ""),
     Call("github", "issues.create", <<n>>, ""),
     Call("git", "create_branch", <<BranchName(k, n), "main">>, ""),
     Call("git", "switch_branch", <<BranchName(k, n)>>, "") >>

\* The issues the current invocation created.
NewIssues == hub.issues \ pre.hub.issues

\* C16: a start run that has succeeded made exactly the calls read branch,
\* get repository, create issue, create branch from 'main', switch, in that
\* order and each once; it leaves exactly one new issue, titled with the
\* hotfix name and labelled bug and hotfix, the new branch listed and checked
\* out, the remote branches as they were and the target stored.  A start run
\* ended by an error made a beginning of that sequence with only its last call
\* failing, and what the calls that returned did is still there: the issue if
\* its creation returned, the branch if its creation returned, while the
\* checked-out branch and the config store are as before.
C16_StartStepsInOrder ==
  /\ (mode = "start" /\ pc = "idle" /\ status = "success") =>
       /\ calls = StartCalls(loc.hotfix_name, loc.issue_number)
       /\ NewIssues = {[ number |-> loc.issue_number, title |-> loc.hotfix_name,
                         body |-> "Hotfix to address: " \o loc.hotfix_name,
                         labels |-> {"bug", "hotfix"} ]}
       /\ git.head = BranchName(loc.issue_number, loc.hotfix_name)
       /\ InList(git.branches, git.head)
       /\ git.remote_branches = pre.git.remote_branches
       /\ ~Called("push_branch")
       /\ config.last_used_microservice = loc.target_path
  /\ (mode = "start" /\ pc = "idle" /\ status = "error" /\ Len(calls) > 0) =>
       /\ \A i \in 1..(Len(calls) - 1) :
            calls[i] = StartCalls(loc.hotfix_name, loc.issue_number)[i]
       /\ Len(calls) <= 5
       /\ ~Returned(Len(calls)) \/ loc.current_branch # "main"
       /\ Cardinality(NewIssues) = IF Did("issues.create") THEN 1 ELSE 0
       /\ \A x \in NewIssues : x.title = loc.hotfix_name /\ x.number = loc.issue_number
       /\ Did("create_branch") => InList(git.branches, loc.branch_name)
       /\ ~Did("create_branch") => git.branches = pre.git.branches
       /\ git.head = pre.git.head
       /\ git.remote_branches = pre.git.remote_branches
       /\ config = pre.config

\* A start run has succeeded for 'Fix login bug'.
C16_Witness ==
  /\ mode = "start" /\ pc = "idle" /\ status = "success"
  /\ loc.hotfix_name = "Fix login bug"
  /\ Cardinality(NewIssues) = 1
  /\ git.head = "hotfix/42-fix-login-bug"

\* A start run was ended by the failure of the branch creation; the issue it
\* had created remains.
C16_WitnessIssueRemains ==
  /\ mode = "start" /\ pc = "idle" /\ status = "error"
  /\ Len(calls) = 4 /\ calls[4].op = "create_branch" /\ ~Returned(4)
  /\ Cardinality(NewIssues) = 1

(***************************************************************************)
(* C17                                                                     *)
(***************************************************************************)

\* The pull requests of seq prs from branch b into base.
PrsOf(prs, b, base) == {i \in 1..Len(prs) : prs[i].head = b /\ prs[i].base = base}

\* The current invocation is a finish run on a hotfix branch for which an
\* earlier run already committed the changelog and created the pull request
\* into 'main', and which that run left checked out.
RerunAfterAbort ==
  /\ mode = "finish" /\ loc.current_branch = pre.git.head
  /\ StartsWith(pre.git.head, "hotfix/")
  /\ pre.git.commits # <<>>
  /\ PrsOf(pre.hub.prs, pre.git.head, "main") # {}

\* The heading with which the entry of version v starts.
EntryHeading(v) == "## [" \o v \o "]("

\* C17: a finish run started again on the hotfix branch of a run that was
\* ended after its changelog commit and its pull request into 'main' is not
\* stopped by what that run left: it computes the version of that run's
\* commit again, its write step adds one more entry for that version to a
\* changelog that already holds one, and its pull-request step adds one more
\* pull request from the branch into 'main'.
C17_RerunDuplicates ==
  RerunAfterAbort =>
    LET v == loc.next_version
        before == Count(pre.changelog, EntryHeading(v))
    IN /\ v # None => pre.git.commits[Len(pre.git.commits)] = CommitMessage(v)
       /\ (Called("add") /\ before >= 1) => Count(changelog, EntryHeading(v)) = before + 1
       /\ DidWith("prs.create", <<loc.current_branch, "main">>) =>
            Cardinality(PrsOf(hub.prs, loc.current_branch, "main"))
              = Cardinality(PrsOf(pre.hub.prs, loc.current_branch, "main")) + 1

\* A second finish run on the same branch has left two entries for version
\* 0.0.1 in the changelog and two pull requests into 'main'.
C17_Witness ==
  /\ RerunAfterAbort /\ loc.next_version = "0.0.1"
  /\ Count(changelog, EntryHeading("0.0.1")) = 2
  /\ Cardinality(PrsOf(hub.prs, loc.current_branch, "main")) = 2

(***************************************************************************)
(* C18                                                                     *)
(***************************************************************************)

\* The arguments of the calls of operation op in the log.
ArgsOf(op) == {calls[i].args : i \in {j \in CallIdx : calls[j].op = op}}

\* C18: in a finish run, with v the version computed after the latest tag was
\* read: the entry starts with the heading of v linked to the release of tag
\* 'v' + v, the commit message ends with v, the tag is named 'v' + v with the
\* message 'Release ' + v, that tag name is the one pushed, and the release
\* has that tag and the title 'Release ' + v; the tag created in the run does
\* not change v.
C18_OneVersionPerRun ==
  (mode = "finish" /\ loc.next_version # None) =>
    LET v == loc.next_version
    IN /\ loc.tag_name = "v" \o v
       /\ loc.new_entry # None =>
            StartsWith(loc.new_entry,
                       "## [" \o v \o "](https://github.com/org/svc/releases/tag/v" \o v \o ") - ")
       /\ ArgsOf("commit") \subseteq {<<"docs: update changelog for version " \o v>>}
       /\ Did("commit") =>
            git.commits[Len(git.commits)] = "docs: update changelog for version " \o v
       /\ ArgsOf("create_tag") \subseteq {<<"v" \o v, "Release " \o v>>}
       /\ Did("create_tag") =>
            [name |-> "v" \o v, message |-> "Release " \o v, on |-> "main"] \in git.tags
       /\ Did("push_tags") => ("v" \o v) \in git.pushed_tags
       /\ ArgsOf("repos.create_release") \subseteq {<<"v" \o v>>}
       /\ Did("repos.create_release") =>
            \E r \in hub.releases : r.tag = "v" \o v /\ r.name = "Release " \o v

\* A finish run that read the latest tag v1.2.9 has released 1.2.10.
C18_Witness ==
  /\ mode = "finish" /\ loc.latest_tag = "v1.2.9" /\ loc.next_version = "1.2.10"
  /\ git.latest_tag = "v1.2.10"
  /\ Did("commit") /\ Did("push_tags")
  /\ \E r \in hub.releases : r.tag = "v1.2.10" /\ r.name = "Release 1.2.10"

(***************************************************************************)
(* C19                                                                     *)
(***************************************************************************)

\* The finish run has deleted its hotfix branch somewhere, or tried to.
DeletionStarted ==
  \/ Called("delete_remote_branch") \/ Called("delete_local_branch")
  \/ ~InList(git.branches, loc.current_branch)
  \/ Did("push_branch") /\ loc.current_branch \notin git.remote_branches

\* C19: in a finish run that has read its branch, the hotfix branch is deleted
\* remotely or locally, or its deletion called, only with both pull requests
\* of the branch merged, the run's tag pushed and the run's release created;
\* a run ended in steps 1-9 leaves the hotfix branch listed locally.
C19_DeletionOnlyAfterRelease ==
  (mode = "finish" /\ loc.current_branch # None) =>
    /\ DeletionStarted =>
         /\ BothMerged(loc.current_branch)
         /\ Did("prs.merge")
         /\ Did("push_tags") /\ loc.tag_name \in git.pushed_tags
         /\ Did("repos.create_release") /\ \E r \in hub.releases : r.tag = loc.tag_name
    /\ (pc = "idle" /\ status # "success" /\ ~Called("get_all_branches")) =>
         InList(git.branches, loc.current_branch)

\* A finish run has deleted the hotfix branch remotely and locally.
C19_Witness ==
  /\ mode = "finish" /\ Did("delete_remote_branch") /\ Did("delete_local_branch")
  /\ ~InList(git.branches, loc.current_branch)
  /\ \E r \in hub.releases : r.tag = loc.tag_name

\* A finish run was ended by the failure of the release; the branch is listed.
C19_WitnessAbort ==
  /\ mode = "finish" /\ pc = "idle" /\ status = "error"
  /\ Called("repos.create_release") /\ ~Did("repos.create_release")
  /\ InList(git.branches, loc.current_branch)

(***************************************************************************)
(* C20                                                                     *)
(***************************************************************************)

\* C20: while a run is under way, and after a run that ended in any way but
\* success (precondition failure, invalid arguments, provider error,
\* interrupt, crash), the config store is as the run found it; after a run
\* that ended with success it holds the run's target as last used.
C20_ConfigWrittenOnSuccessOnly ==
  /\ (pc # "idle" \/ status # "success") => config = pre.config
  /\ (pc = "idle" /\ status = "success") => config.last_used_microservice = loc.target_path

\* A first run, a start, has succeeded and stored its target.
C20_Witness ==
  /\ pc = "idle" /\ status = "success" /\ mode = "start"
  /\ pre.config.last_used_microservice = None
  /\ config.last_used_microservice = TargetPath

\* A first finish run was cancelled at the description prompt after its
\* commit; nothing is stored.
C20_WitnessCancelled ==
  /\ pc = "idle" /\ status = "cancelled" /\ mode = "finish" /\ Did("commit")
  /\ config.last_used_microservice = None

(***************************************************************************)
(* C21                                                                     *)
(***************************************************************************)

\* The names the plan of the run never holds (hotfix.py:171).
NotACandidate(b) ==
  \/ b \in {"main", "develop", "doc", loc.current_branch}
  \/ StartsWith(b, "remotes/")

\* Call i is a switch to candidate b of the plan.
SwitchTo(i, b) ==
  /\ calls[i].op = "switch_branch" /\ calls[i].args = <<b>>
  /\ InList(loc.branches_to_merge_into, b)

\* C21: in a finish run every local merge is a merge of 'main' whose
\* preceding call is a switch to a candidate of the plan that returned; the
\* call after a failed switch to a candidate is never a merge; while the merge
\* is about to run the checked-out branch is that candidate, and neither the
\* candidate nor any branch the run merged into or left in conflict is
\* 'main', 'develop', 'doc', the hotfix branch or a remote-tracking reference.
C21_MergeOnlyAfterSwitch ==
  mode = "finish" =>
    /\ \A i \in CallIdx :
         calls[i].op = "merge_branch_locally" =>
           /\ calls[i].args = <<"main">>
           /\ i > 1
           /\ \E b \in ToSet(loc.branches_to_merge_into) :
                SwitchTo(i - 1, b) /\ Returned(i - 1) /\ ~NotACandidate(b)
    /\ \A i \in CallIdx :
         (i < Len(calls) /\ calls[i].op = "switch_branch" /\ ~Returned(i)
            /\ InList(loc.branches_to_merge_into, calls[i].args[1]))
           => calls[i + 1].op # "merge_branch_locally"
    /\ pc = "f_p_merge" =>
         /\ SwitchTo(Len(calls), git.head) /\ Returned(Len(calls))
         /\ ~NotACandidate(git.head)
    /\ \A b \in (git.merged \ pre.git.merged) \cup (git.conflicts \ pre.git.conflicts) :
         InList(loc.branches_to_merge_into, b) /\ ~NotACandidate(b)

\* A finish run failed to switch to one candidate, went on to the next
\* without a merge, switched to it and merged 'main' into it.
C21_Witness ==
  /\ mode = "finish"
  /\ \E i \in CallIdx :
       /\ i + 2 <= Len(calls)
       /\ calls[i].op = "switch_branch" /\ ~Returned(i)
       /\ InList(loc.branches_to_merge_into, calls[i].args[1])
       /\ calls[i + 1].op = "switch_branch" /\ Returned(i + 1)
       /\ calls[i + 1].args # calls[i].args
       /\ calls[i + 2].op = "merge_branch_locally" /\ Returned(i + 2)
       /\ git.head = calls[i + 1].args[1]
       /\ git.head \in git.merged

====
